---- MODULE Spec2Model ----
(***************************************************************************)
(* A model of the UniSender python client: the low-level Client            *)
(* (configuration, operation allow-list, key-path encoder), the            *)
(* SimpleClient campaign workflow and its batch variant, and the content   *)
(* hasher, against a remote service that answers every call with either a *)
(* success, an embedded error or an HTTP error.                            *)
(***************************************************************************)
EXTENDS Integers, Sequences, FiniteSets, TLC

(***************************************************************************)
(* Bounds                                                                  *)
(***************************************************************************)
\* top-level invocations one client makes in a behaviour
MaxRuns == 2
\* items in the campaigns argument of create_many_email_campaigns
MaxBatch == 2

(***************************************************************************)
(* Python values: tagged tuples.  A dict is the sequence of its (key,      *)
(* value) pairs in insertion order, keys distinct.                         *)
(***************************************************************************)
None == <<"none">>
StrV(s) == <<"str", s>>
IntV(n) == <<"int", n>>
\* a datetime with zero seconds, held as its "YYYY-MM-DD HH:MM" text
DatetimeV(s) == <<"datetime", s>>
ListV(items) == <<"list", items>>
DictV(items) == <<"dict", items>>
\* a requests.Response, held as its status code
ResponseV(response) == <<"response", response.status_code>>

IsDict(v) == v[1] = "dict"
IsList(v) == v[1] = "list"

Keys(d) == {d[2][i][1] : i \in 1..Len(d[2])}
Has(d, k) == k \in Keys(d)
Get(d, k) == LET i == CHOOSE j \in 1..Len(d[2]) : d[2][j][1] = k IN d[2][i][2]
\* dict.get(k): None when absent
DictGet(d, k) == IF Has(d, k) THEN Get(d, k) ELSE None
\* d[k] = v: replaces in place, or appends
SetItem(d, k, v) ==
    IF Has(d, k)
    THEN DictV([i \in 1..Len(d[2]) |-> IF d[2][i][1] = k THEN <<k, v>> ELSE d[2][i]])
    ELSE DictV(Append(d[2], <<k, v>>))
\* d.setdefault(k, v)
SetDefault(d, k, v) == IF Has(d, k) THEN d ELSE DictV(Append(d[2], <<k, v>>))

\* str(obj) of a scalar
PyStr(v) ==
    CASE v[1] = "str" -> v[2]
      [] v[1] = "int" -> ToString(v[2])
      [] v[1] = "datetime" -> v[2] \o ":00"
      [] OTHER -> "None"

\* bool(obj)
Truthy(v) ==
    CASE v[1] = "none" -> FALSE
      [] v[1] = "str" -> v[2] # ""
      [] v[1] = "int" -> v[2] # 0
      [] v[1] = "list" -> Len(v[2]) > 0
      [] v[1] = "dict" -> Len(v[2]) > 0
      [] OTHER -> TRUE

RECURSIVE ConcatAll(_)
ConcatAll(strs) == IF Len(strs) = 0 THEN "" ELSE Head(strs) \o ConcatAll(Tail(strs))

\* sep.join(strs)
RECURSIVE Join(_, _)
Join(sep, strs) ==
    IF Len(strs) = 0 THEN ""
    ELSE IF Len(strs) = 1 THEN Head(strs)
    ELSE Head(strs) \o sep \o Join(sep, Tail(strs))

\* the sequences that list the elements of a set once each, in any order
RECURSIVE Orders(_)
Orders(S) ==
    IF S = {} THEN {<<>>}
    ELSE UNION {{<<x>> \o o : o \in Orders(S \ {x})} : x \in S}

(***************************************************************************)
(* utils.py                                                                *)
(***************************************************************************)
RECURSIVE get_string_repr(_)
get_string_repr(obj) ==
    IF IsList(obj)
    THEN ConcatAll([i \in 1..Len(obj[2]) |-> get_string_repr(obj[2][i])])
    ELSE IF IsDict(obj)
    THEN ConcatAll([i \in 1..Len(obj[2]) |-> get_string_repr(obj[2][i][2])])
    ELSE PyStr(obj)

\* The SHA-1 digest reduced modulo 10^10 is held symbolically, as a term
\* over the hashed string: equal strings give equal digests and the digest
\* is taken to be collision-free.
get_unique_hash(obj) == "sha1(" \o get_string_repr(obj) \o ")%10^10"

\* to_camel_case over the operation names the workflow uses
to_camel_case(snake_case_str) ==
    CASE snake_case_str = "get_lists" -> "getLists"
      [] snake_case_str = "create_list" -> "createList"
      [] snake_case_str = "get_fields" -> "getFields"
      [] snake_case_str = "create_field" -> "createField"
      [] snake_case_str = "import_contacts" -> "importContacts"
      [] snake_case_str = "create_email_message" -> "createEmailMessage"
      [] snake_case_str = "create_campaign" -> "createCampaign"
      [] snake_case_str = "delete_list" -> "deleteList"
      [] OTHER -> snake_case_str

(***************************************************************************)
(* State                                                                   *)
(***************************************************************************)
VARIABLES
    DEFAULT_CONF,    \* Client.DEFAULT_CONF, the one class-level dict
    constructed,     \* the client instances that exist
    ctor_args,       \* per client: the arguments its constructor received and
                     \* the configuration it had when the constructor returned
    remote_lists,    \* remote service: mailing lists, oldest first
    remote_fields,   \* remote service: names of the custom fields
    remote_contacts, \* remote service: (email, list ids) of imported contacts
    remote_messages, \* remote service: ids of the email messages
    remote_campaigns,\* remote service: (campaign id, message id)
    next_id,         \* remote service: the next id it assigns
    calls,           \* the requests.post calls of the current invocation
    last_request,    \* the url and parameters of the latest requests.post
    wf,              \* per client: the frame of its running invocation
    runs,            \* top-level invocations started so far
    enc_in,          \* encoder: the keyword arguments under encoding
    enc_out,         \* encoder: the request data built from them
    enc_alt,         \* encoder: the same arguments, arranged differently
    enc_alt_out,     \* encoder: the request data built from enc_alt
    hash_in,         \* hasher: two recipient collections
    hash_out         \* hasher: the list titles derived from them so far

vars == <<DEFAULT_CONF, constructed, ctor_args, remote_lists, remote_fields,
          remote_contacts, remote_messages, remote_campaigns, next_id, calls,
          last_request, wf, runs, enc_in, enc_out, enc_alt, enc_alt_out,
          hash_in, hash_out>>

remote_vars == <<remote_lists, remote_fields, remote_contacts,
                 remote_messages, remote_campaigns, next_id>>
conf_vars == <<DEFAULT_CONF, constructed, ctor_args>>
enc_vars == <<enc_in, enc_out, enc_alt, enc_alt_out>>
hash_vars == <<hash_in, hash_out>>

ClientIds == {1, 2}

(***************************************************************************)
(* client.py: configuration                                                *)
(***************************************************************************)
ClassDefaultConf ==
    [base_url |-> "https://api.unisender.com", lang |-> "en",
     format |-> "json", api_key |-> "None", platform |-> "None"]

ConfKeys == {"base_url", "lang", "format", "api_key", "platform"}

\* self._config: every instance is bound to the class dict itself
config(c) == DEFAULT_CONF

\* Client.__init__: the value of the dict that self._config names afterwards
ClientInit(conf, api_key, platform, kwargs) ==
    LET c1 == [conf EXCEPT !.api_key = api_key, !.platform = platform]
    IN  [k \in ConfKeys |-> IF k \in DOMAIN kwargs THEN kwargs[k] ELSE c1[k]]

_get_default_request_data(c) ==
    [api_key |-> config(c).api_key, platform |-> config(c).platform,
     format |-> config(c).format]

_get_request_url(c, method) ==
    config(c).base_url \o "/" \o config(c).lang \o "/api/" \o to_camel_case(method)

\* dict.update(other): other's entries, in order, set into result
RECURSIVE Update(_, _)
Update(result, other) ==
    IF Len(other[2]) = 0 THEN result
    ELSE Update(SetItem(result, other[2][1][1], other[2][1][2]), DictV(Tail(other[2])))

\* dict(enumerate(val)): the zero-based positions as keys; a key reaches
\* the key path through the f-string, as its decimal text
enumerate_from_one(val) ==
    DictV([i \in 1..Len(val[2]) |-> <<ToString(i), val[2][i]>>])
enumerate(val) ==
    DictV([i \in 1..Len(val[2]) |-> <<ToString(i - 1), val[2][i]>>])

\* Client._build_request_data; extra_key is None or a str
RECURSIVE _build_request_data(_, _, _)
RECURSIVE BuildItems(_, _, _, _, _)
\* lines 79-86: the loop over data.items() from the i-th item on
BuildItems(c, data, extra_key, i, result) ==
    IF i > Len(data[2]) THEN result
    ELSE LET key == data[2][i][1]
             val == data[2][i][2]
             _key == IF extra_key[1] = "str"
                     THEN extra_key[2] \o "[" \o key \o "]"
                     ELSE key
         IN  BuildItems(c, data, extra_key, i + 1,
                 IF IsDict(val)
                 THEN Update(result, _build_request_data(c, val, StrV(_key)))
                 ELSE IF IsList(val)
                 THEN Update(result, _build_request_data(c, enumerate(val), StrV(_key)))
                 ELSE IF val # None
                 THEN SetItem(result, _key, val)
                 ELSE result)
_build_request_data(c, data, extra_key) ==
    BuildItems(c, data, extra_key, 1,
               DictV(<<<<"api_key", StrV(_get_default_request_data(c).api_key)>>,
                       <<"platform", StrV(_get_default_request_data(c).platform)>>,
                       <<"format", StrV(_get_default_request_data(c).format)>>>>))

_api_methods ==
    {"get_lists", "create_list", "update_list", "delete_list",
     "subscribe", "exclude", "unsubscribe",
     "import_contacts", "export_contacts",
     "get_total_contacts_count", "get_contact_count", "get_contact",
     "get_fields", "create_field", "update_field", "delete_field",
     "get_tags", "delete_tag",
     "create_email_message", "update_email_message", "delete_message",
     "send_email", "send_test_email", "check_email", "update_opt_in_email",
     "get_messages", "get_message", "list_messages", "get_checked_email",
     "create_campaign", "cancel_campaign",
     "create_sms_message", "send_sms", "check_sms", "get_actual_message_version",
     "get_web_version",
     "create_email_template", "update_email_template", "delete_template",
     "get_template", "get_templates", "list_templates",
     "get_campaign_delivery_stats", "get_campaign_common_stats", "get_visited_links",
     "get_campaigns", "get_campaign_status",
     "validate_sender", "register", "check_user_exists", "get_user_info", "get_users",
     "transfer_money", "get_available_tariffs", "change_tariff", "set_sender_domain"}

\* Client.__getattr__: the bound request function, or (falling off the end
\* of the method) None
getattr_always_get(name) == "get"
getattr(name) == IF name \in _api_methods THEN "get" ELSE "None"

(***************************************************************************)
(* Errors and responses                                                    *)
(***************************************************************************)
NoError == [type |-> "", msg |-> ""]
Exception(msg) == [type |-> "Exception", msg |-> msg]
Raised(type, msg) == [type |-> type, msg |-> msg]

ERROR_MESSAGES(key) ==
    CASE key = "email_data_error" ->
            "UniSender client error: Please fill correct \"email_data\" fields"
      [] key = "email_missing_fields" ->
            "UniSender client error: Please fill \"email_data\" required field(s): "
      [] key = "email_recipients_empty" ->
            "UniSender client error: The recipient list should not be empty!"
      [] OTHER -> "UniSender client error: Request failed"

\* what the remote service may answer: success, an embedded error, an HTTP
\* error
Responses ==
    {[status_code |-> 200, error |-> None],
     [status_code |-> 200, error |-> StrV("invalid")],
     [status_code |-> 500, error |-> None]}

Succeeded(response) == response.status_code = 200 /\ response.error = None

\* SimpleClient._validate_response
_validate_response(response, url) ==
    IF response.status_code = 200
    THEN IF response.error # None
         THEN Exception(ERROR_MESSAGES("request_error") \o " [status: "
                        \o ToString(response.status_code) \o "] [URL: " \o url
                        \o "] Details: " \o PyStr(response.error))
         ELSE NoError
    ELSE Exception(ERROR_MESSAGES("request_error") \o " [status: "
                   \o ToString(response.status_code) \o "] [URL: " \o url
                   \o "] Details: HTTP error")

\* SimpleClient.after_request
after_request_pass(response, url) == NoError
after_request(response, url) == _validate_response(response, url)

(***************************************************************************)
(* simple_client.py: validation                                            *)
(***************************************************************************)
SeqToSet(seq) == {seq[i] : i \in 1..Len(seq)}

REQUIRED_EMAIL_ARGS_no_subject(email_type) ==
    IF email_type = "html"
    THEN <<"sender_name", "sender_email", "body">>
    ELSE <<"sender_name", "sender_email">>
REQUIRED_EMAIL_ARGS(email_type) ==
    IF email_type = "html"
    THEN <<"sender_name", "sender_email", "body", "subject">>
    ELSE <<"sender_name", "sender_email">>

EMAIL_SYSTEM_FIELDS_without_email ==
    {"delete", "tags", "email_status", "email_availability",
     "email_list_ids", "email_subscribe_times", "email_unsubscribed_list_ids",
     "email_excluded_list_ids"}
EMAIL_SYSTEM_FIELDS ==
    {"delete", "tags", "email", "email_status", "email_availability",
     "email_list_ids", "email_subscribe_times", "email_unsubscribed_list_ids",
     "email_excluded_list_ids"}

\* SimpleClient._validate_recipients: the error raised, NoError if none
_validate_recipients(recipients) ==
    IF ~Truthy(recipients)
    THEN Exception(ERROR_MESSAGES("email_recipients_empty"))
    ELSE NoError

\* SimpleClient._validate_email_data: the errors it may raise ({NoError} if
\* none); the missing names are joined in the iteration order of a set
_validate_email_data(data) ==
    LET is_template == Has(data, "template_id") \/ Has(data, "system_template_id")
        is_html == Has(data, "text_body") \/ Has(data, "body")
        email_type == IF is_template THEN "template" ELSE "html"
        required == SeqToSet(REQUIRED_EMAIL_ARGS(email_type))
    IN  IF ~is_template /\ ~is_html
        THEN {Exception(ERROR_MESSAGES("email_data_error"))}
        ELSE IF required \subseteq Keys(data)
        THEN {NoError}
        ELSE {Exception(ERROR_MESSAGES("email_missing_fields") \o Join(", ", fields)) :
                fields \in Orders(required \ Keys(data))}

(***************************************************************************)
(* simple_client.py: the frame of an invocation and its local steps        *)
(***************************************************************************)
IdleFrame ==
    [pc |-> "idle", op |-> "", recipients |-> None, email_data |-> None,
     campaign_data |-> None, email_data_arg |-> None,
     campaign_data_arg |-> None, again |-> FALSE, list_title |-> "", list_id |-> None,
     email_list_ids |-> <<>>, field_names |-> <<>>, data |-> <<>>,
     existing_field_names |-> {}, todo |-> {},
     message_id |-> None, result |-> None, error |-> NoError,
     batch |-> FALSE, campaigns |-> <<>>, campaigns_arg |-> <<>>, campaign_num |-> 0,
     campaign_ids |-> <<>>, default_email_data |-> None,
     default_campaign_data |-> None]

\* an exception leaving create_email_campaign: create_many_email_campaigns
\* catches it and raises a new one that carries the campaign number
Annotate(e, campaign_num) ==
    Exception(e.msg \o ". Campaign number: " \o ToString(campaign_num))
RaiseUnannotated(w, e) == [w EXCEPT !.pc = "raised", !.error = e]
Raise_plain(w, e) == [w EXCEPT !.pc = "raised", !.error = e]
Raise(w, e) ==
    IF w.batch
    THEN [w EXCEPT !.pc = "raised", !.error = Annotate(e, w.campaign_num)]
    ELSE [w EXCEPT !.pc = "raised", !.error = e]

\* create_email_campaign, lines 279-280: the title of the recipients' list
list_title(recipients) == "mailing_list_" \o get_unique_hash(recipients)

\* create_email_campaign, lines 276-281: up to the first remote call
EnterWorkflow_email_data_unchecked(w, recipients, email_data, campaign_data) ==
    LET w1 == [w EXCEPT !.recipients = recipients, !.email_data = email_data,
                        !.campaign_data = campaign_data]
    IN  IF _validate_recipients(recipients) # NoError
        THEN {Raise(w1, _validate_recipients(recipients))}
        ELSE {[w1 EXCEPT !.pc = "get_lists", !.list_title = list_title(recipients)]}
EnterWorkflow(w, recipients, email_data, campaign_data) ==
    LET w1 == [w EXCEPT !.recipients = recipients, !.email_data = email_data,
                        !.campaign_data = campaign_data,
                        !.list_title = "", !.list_id = None,
                        !.email_list_ids = <<>>, !.existing_field_names = {},
                        !.field_names = <<>>, !.data = <<>>, !.todo = {},
                        !.message_id = None]
    IN  IF _validate_recipients(recipients) # NoError
        THEN {Raise(w1, _validate_recipients(recipients))}
        ELSE {IF e # NoError
              THEN Raise(w1, e)
              ELSE [w1 EXCEPT !.pc = "get_lists",
                              !.list_title = list_title(recipients)] :
                e \in _validate_email_data(email_data)}

\* find_list_id, lines 81-86: the id of the last list with the title
find_list_id_none(lists, title) == None
find_list_id_any_title(lists, title) ==
    IF Len(lists) = 0 THEN None ELSE IntV(lists[Len(lists)].id)
find_list_id(lists, title) ==
    LET hits == {i \in 1..Len(lists) : lists[i].title = title}
    IN  IF hits = {} THEN None
        ELSE IntV(lists[CHOOSE i \in hits : \A j \in hits : j <= i].id)

\* import_contacts._create_contacts_field_names: a list of a set
_create_contacts_field_names(recipients) ==
    Orders(Keys(recipients[2][1]) \cup {"email_status", "email_list_ids"})

\* import_contacts._create_contacts_data; a recipient without one of the
\* field names makes contact[key] fail
ContactsComplete(field_names, recipients) ==
    \A i \in 1..Len(recipients[2]) :
        SeqToSet(field_names) \ {"email_status", "email_list_ids"}
            \subseteq Keys(recipients[2][i])
_create_contacts_data_keep_status(field_names, recipients, email_list_ids) ==
    [i \in 1..Len(recipients[2]) |->
        LET contact == SetItem(SetDefault(recipients[2][i], "email_status", StrV("active")),
                               "email_list_ids",
                               StrV(Join(",", [j \in 1..Len(email_list_ids) |->
                                                  PyStr(email_list_ids[j])])))
        IN  ListV([j \in 1..Len(field_names) |-> StrV(PyStr(Get(contact, field_names[j])))])]
_create_contacts_data(field_names, recipients, email_list_ids) ==
    [i \in 1..Len(recipients[2]) |->
        LET contact == SetItem(SetItem(recipients[2][i], "email_status", StrV("active")),
                               "email_list_ids",
                               StrV(Join(",", [j \in 1..Len(email_list_ids) |->
                                                  PyStr(email_list_ids[j])])))
        IN  ListV([j \in 1..Len(field_names) |-> StrV(PyStr(Get(contact, field_names[j])))])]

\* create_email_campaign line 286 and import_contacts lines 172-175: from
\* the resolved list id up to the get_fields call of create_fields
AfterListResolved_no_fields(w, list_id) ==
    LET w1 == [w EXCEPT !.list_id = list_id, !.email_list_ids = <<list_id>>,
                        !.email_data = SetItem(w.email_data, "list_id", list_id)]
    IN  {[w1 EXCEPT !.pc = "import_contacts", !.field_names = field_names,
                    !.data = _create_contacts_data(field_names, w.recipients,
                                                   <<list_id>>)] :
            field_names \in _create_contacts_field_names(w.recipients)}
AfterListResolved(w, list_id) ==
    LET w1 == [w EXCEPT !.list_id = list_id, !.email_list_ids = <<list_id>>,
                        !.email_data = SetItem(w.email_data, "list_id", list_id)]
    IN  {IF ContactsComplete(field_names, w.recipients)
         THEN [w1 EXCEPT !.pc = "get_fields", !.field_names = field_names,
                         !.data = _create_contacts_data(field_names, w.recipients,
                                                        <<list_id>>)]
         ELSE Raise(w1, Raised("KeyError", "contact[key]")) :
            field_names \in _create_contacts_field_names(w.recipients)}

\* import_contacts lines 172-175, called directly: up to the get_fields call
\* of create_fields; recipients[0] of an empty list fails
ImportContactsEnter(w, recipients, email_list_ids) ==
    LET ids == IF Truthy(email_list_ids) THEN email_list_ids[2] ELSE <<>>
        w1 == [w EXCEPT !.recipients = recipients, !.email_list_ids = ids]
    IN  IF Len(recipients[2]) = 0
        THEN {Raise(w1, Raised("IndexError", "list index out of range"))}
        ELSE {IF ContactsComplete(field_names, recipients)
              THEN [w1 EXCEPT !.pc = "get_fields", !.field_names = field_names,
                              !.data = _create_contacts_data(field_names, recipients, ids)]
              ELSE Raise(w1, Raised("KeyError", "contact[key]")) :
                field_names \in _create_contacts_field_names(recipients)}

\* create_email_message lines 197-199: the keyword arguments it sends
EmailMessageData(data) ==
    IF DictGet(data, "categories") # None
    THEN SetItem(data, "categories",
                 StrV(Join(",", [i \in 1..Len(Get(data, "categories")[2]) |->
                                    PyStr(Get(data, "categories")[2][i])])))
    ELSE data

\* create_email_campaign lines 291-296: the campaign data after the message
\* was created; a start time that is not a datetime has no strftime
strftime(start_time) == StrV(start_time[2])
CampaignData(campaign_data, message_id) ==
    LET d0 == IF campaign_data = None THEN DictV(<<>>) ELSE campaign_data
        d1 == SetItem(d0, "message_id", message_id)
        start_time == DictGet(d1, "start_time")
    IN  IF Truthy(start_time)
        THEN SetItem(d1, "start_time", strftime(start_time))
        ELSE d1
CampaignDataFails(campaign_data) ==
    /\ campaign_data # None
    /\ Truthy(DictGet(campaign_data, "start_time"))
    /\ DictGet(campaign_data, "start_time")[1] # "datetime"

(***************************************************************************)
(* simple_client.py: create_many_email_campaigns, the loop body            *)
(***************************************************************************)
Alphabet == {"c", "t", "z"}

\* "for key, val in d.keys()": a key is unpacked into two names, which
\* takes a string of exactly two characters
Unpack(k) ==
    IF Len(k) = 2
    THEN LET p == CHOOSE q \in Alphabet \X Alphabet : q[1] \o q[2] = k
         IN  [error |-> NoError, key |-> p[1], val |-> StrV(p[2])]
    ELSE IF Len(k) > 2
    THEN [error |-> Raised("ValueError", "too many values to unpack (expected 2)"),
          key |-> "", val |-> None]
    ELSE [error |-> Raised("ValueError", "not enough values to unpack (expected 2, got "
                                         \o ToString(Len(k)) \o ")"),
          key |-> "", val |-> None]

\* lines 356-357 and 359-360: setdefault for every key of the defaults, in
\* order, from the i-th on; stops at the first key that fails to unpack
RECURSIVE MergeDefaults(_, _, _)
MergeDefaults(target, defaults, i) ==
    IF i > Len(defaults[2])
    THEN [d |-> target, error |-> NoError]
    ELSE LET u == Unpack(defaults[2][i][1])
         IN  IF u.error # NoError
             THEN [d |-> target, error |-> u.error]
             ELSE MergeDefaults(SetDefault(target, u.key, u.val), defaults, i + 1)

\* lines 354-368: the loop from campaign number w.campaign_num up to the
\* first remote call of that campaign, or to the end of the method
BatchIter(w) ==
    IF w.campaign_num >= Len(w.campaigns)
    THEN {[w EXCEPT !.pc = "returned",
                    !.result = ListV([i \in 1..Len(w.campaign_ids) |->
                                         IntV(w.campaign_ids[i])])]}
    ELSE LET campaign == w.campaigns[w.campaign_num + 1]
             m1 == IF w.default_email_data # None
                   THEN MergeDefaults(Get(campaign, "email_data"), w.default_email_data, 1)
                   ELSE [d |-> Get(campaign, "email_data"), error |-> NoError]
             m2 == IF m1.error = NoError /\ w.default_campaign_data # None
                   THEN MergeDefaults(Get(campaign, "campaign_data"),
                                      w.default_campaign_data, 1)
                   ELSE [d |-> Get(campaign, "campaign_data"), error |-> NoError]
             merged == SetItem(SetItem(campaign, "email_data", m1.d),
                               "campaign_data", m2.d)
             w1 == [w EXCEPT !.campaigns[w.campaign_num + 1] = merged]
         IN  IF m1.error # NoError THEN {RaiseUnannotated(w1, m1.error)}
             ELSE IF m2.error # NoError THEN {RaiseUnannotated(w1, m2.error)}
             ELSE EnterWorkflow(w1, w.recipients, m1.d, m2.d)

\* create_email_campaign line 299; in a batch, lines 369-370 and the next
\* turn of the loop
Return_message_id(w, campaign_id) ==
    IF w.batch
    THEN BatchIter([w EXCEPT !.campaign_ids = Append(@, w.message_id[2]),
                             !.campaign_num = @ + 1])
    ELSE {[w EXCEPT !.pc = "returned", !.result = w.message_id]}
Return(w, campaign_id) ==
    IF w.batch
    THEN BatchIter([w EXCEPT !.campaign_ids = Append(@, campaign_id),
                             !.campaign_num = @ + 1])
    ELSE {[w EXCEPT !.pc = "returned", !.result = IntV(campaign_id)]}

(***************************************************************************)
(* Client._api_request against the remote service                          *)
(***************************************************************************)
NoRequest ==
    [client |-> 0, method |-> "", url |-> "", api_key |-> "", platform |-> "",
     format |-> "", kwargs |-> None]

ItemOf(w) == IF w.batch THEN w.campaign_num ELSE -1

\* lines 120-122: one requests.post, entered in the log
Post(c, method, arg, kwargs, response) ==
    /\ calls' = Append(calls, [client |-> c, item |-> ItemOf(wf[c]), method |-> method,
                               arg |-> arg, status_code |-> response.status_code,
                               error |-> response.error])
    /\ last_request' = [client |-> c, method |-> method,
                        url |-> _get_request_url(c, method),
                        api_key |-> _get_default_request_data(c).api_key,
                        platform |-> _get_default_request_data(c).platform,
                        format |-> _get_default_request_data(c).format,
                        kwargs |-> kwargs]

\* line 123: the error after_request raises for the response, if any
Hook(c, method, response) == after_request(response, _get_request_url(c, method))

\* response.json()['result'] of a response that carries no result
NoResult == Raised("KeyError", "result")

(***************************************************************************)
(* The steps of create_email_campaign, one per remote call                 *)
(***************************************************************************)
\* find_list_id: get_lists and the scan for the title
GetLists(c) ==
    /\ c \in constructed
    /\ wf[c].pc = "get_lists"
    /\ \E response \in Responses :
         LET w == wf[c]
             e == Hook(c, "get_lists", response)
             found == find_list_id(remote_lists, w.list_title)
         IN  /\ Post(c, "get_lists", "", DictV(<<>>), response)
             /\ \E w2 \in (IF e # NoError THEN {Raise(w, e)}
                           ELSE IF ~Succeeded(response) THEN {Raise(w, NoResult)}
                           ELSE IF found = None THEN {[w EXCEPT !.pc = "create_list"]}
                           ELSE AfterListResolved(w, found)) :
                    wf' = [wf EXCEPT ![c] = w2]
    /\ UNCHANGED <<remote_vars, conf_vars, runs, enc_vars, hash_vars>>

\* lines 282-284: no list has the title, create one
CreateList(c) ==
    /\ c \in constructed
    /\ wf[c].pc = "create_list"
    /\ \E response \in Responses :
         LET w == wf[c]
             e == Hook(c, "create_list", response)
         IN  /\ Post(c, "create_list", w.list_title,
                     DictV(<<<<"title", StrV(w.list_title)>>>>), response)
             /\ IF Succeeded(response)
                THEN /\ remote_lists' = Append(remote_lists,
                                               [id |-> next_id, title |-> w.list_title])
                     /\ next_id' = next_id + 1
                ELSE UNCHANGED <<remote_lists, next_id>>
             /\ \E w2 \in (IF e # NoError THEN {Raise(w, e)}
                           ELSE IF ~Succeeded(response) THEN {Raise(w, NoResult)}
                           ELSE AfterListResolved(w, IntV(next_id))) :
                    wf' = [wf EXCEPT ![c] = w2]
    /\ UNCHANGED <<remote_fields, remote_contacts, remote_messages,
                   remote_campaigns, conf_vars, runs, enc_vars, hash_vars>>

\* create_fields lines 97-102: get_fields and the names still to create
GetFields(c) ==
    /\ c \in constructed
    /\ wf[c].pc = "get_fields"
    /\ \E response \in Responses :
         LET w == wf[c]
             e == Hook(c, "get_fields", response)
             existing_field_names == EMAIL_SYSTEM_FIELDS \cup remote_fields
             todo == SeqToSet(w.field_names) \ existing_field_names
         IN  /\ Post(c, "get_fields", "", DictV(<<>>), response)
             /\ wf' = [wf EXCEPT ![c] =
                          IF e # NoError THEN Raise(w, e)
                          ELSE IF ~Succeeded(response) THEN Raise(w, NoResult)
                          ELSE [w EXCEPT !.existing_field_names = existing_field_names,
                                         !.todo = todo,
                                         !.pc = IF todo = {} THEN "import_contacts"
                                                ELSE "create_field"]]
    /\ UNCHANGED <<remote_vars, conf_vars, runs, enc_vars, hash_vars>>

\* create_fields lines 103-104: one turn of the loop over the missing names
CreateField(c) ==
    /\ c \in constructed
    /\ wf[c].pc = "create_field"
    /\ \E field_name \in wf[c].todo, response \in Responses :
         LET w == wf[c]
             e == Hook(c, "create_field", response)
             todo == w.todo \ {field_name}
         IN  /\ Post(c, "create_field", field_name,
                     DictV(<<<<"name", StrV(field_name)>>, <<"type", StrV("string")>>>>),
                     response)
             /\ remote_fields' = IF Succeeded(response)
                                 THEN remote_fields \cup {field_name}
                                 ELSE remote_fields
             /\ wf' = [wf EXCEPT ![c] =
                          IF e # NoError THEN Raise(w, e)
                          ELSE [w EXCEPT !.todo = todo,
                                         !.pc = IF todo = {} THEN "import_contacts"
                                                ELSE "create_field"]]
    /\ UNCHANGED <<remote_lists, remote_contacts, remote_messages,
                   remote_campaigns, next_id, conf_vars, runs, enc_vars, hash_vars>>

\* import_contacts lines 177-182: the bulk import
ImportContacts(c) ==
    /\ c \in constructed
    /\ wf[c].pc = "import_contacts"
    /\ \E response \in Responses :
         LET w == wf[c]
             e == Hook(c, "import_contacts", response)
             kwargs == DictV(<<
                 <<"field_names", ListV([i \in 1..Len(w.field_names) |->
                                            StrV(w.field_names[i])])>>,
                 <<"data", ListV(w.data)>>,
                 <<"overwrite_lists", IntV(1)>> >>)
             list_ids == Join(",", [i \in 1..Len(w.email_list_ids) |->
                                       PyStr(w.email_list_ids[i])])
         IN  /\ Post(c, "import_contacts", list_ids, kwargs, response)
             /\ remote_contacts' = IF Succeeded(response)
                                   THEN remote_contacts \cup {<<list_ids, Len(w.data)>>}
                                   ELSE remote_contacts
             /\ wf' = [wf EXCEPT ![c] =
                          IF e # NoError THEN Raise(w, e)
                          ELSE IF w.op = "import_contacts"
                          THEN [w EXCEPT !.pc = "returned",
                                         !.result = ResponseV(response)]
                          ELSE [w EXCEPT !.pc = "create_email_message"]]
    /\ UNCHANGED <<remote_lists, remote_fields, remote_messages,
                   remote_campaigns, next_id, conf_vars, runs, enc_vars, hash_vars>>

\* create_email_message, then create_email_campaign lines 291-296
CreateEmailMessage(c) ==
    /\ c \in constructed
    /\ wf[c].pc = "create_email_message"
    /\ \E response \in Responses :
         LET w == wf[c]
             e == Hook(c, "create_email_message", response)
         IN  /\ Post(c, "create_email_message", "", EmailMessageData(w.email_data),
                     response)
             /\ IF Succeeded(response)
                THEN /\ remote_messages' = remote_messages \cup {next_id}
                     /\ next_id' = next_id + 1
                ELSE UNCHANGED <<remote_messages, next_id>>
             /\ wf' = [wf EXCEPT ![c] =
                          IF e # NoError THEN Raise(w, e)
                          ELSE IF ~Succeeded(response) THEN Raise(w, NoResult)
                          ELSE IF CampaignDataFails(w.campaign_data)
                          THEN Raise([w EXCEPT !.message_id = IntV(next_id)],
                                     Raised("AttributeError", "strftime"))
                          ELSE [w EXCEPT !.message_id = IntV(next_id),
                                         !.campaign_data =
                                             CampaignData(w.campaign_data, IntV(next_id)),
                                         !.pc = "create_campaign"]]
    /\ UNCHANGED <<remote_lists, remote_fields, remote_contacts,
                   remote_campaigns, conf_vars, runs, enc_vars, hash_vars>>

\* lines 298-299: create_campaign and the value returned
CreateCampaign(c) ==
    /\ c \in constructed
    /\ wf[c].pc = "create_campaign"
    /\ \E response \in Responses :
         LET w == wf[c]
             e == Hook(c, "create_campaign", response)
         IN  /\ Post(c, "create_campaign", PyStr(w.message_id), w.campaign_data, response)
             /\ IF Succeeded(response)
                THEN /\ remote_campaigns' = remote_campaigns \cup
                                                {<<next_id, w.message_id[2]>>}
                     /\ next_id' = next_id + 1
                ELSE UNCHANGED <<remote_campaigns, next_id>>
             /\ \E w2 \in (IF e # NoError THEN {Raise(w, e)}
                           ELSE IF ~Succeeded(response) THEN {Raise(w, NoResult)}
                           ELSE Return(w, next_id)) :
                    wf' = [wf EXCEPT ![c] = w2]
    /\ UNCHANGED <<remote_lists, remote_fields, remote_contacts,
                   remote_messages, conf_vars, runs, enc_vars, hash_vars>>

\* the caller takes the result or the exception; the client is free again
Finish(c) ==
    /\ c \in constructed
    /\ wf[c].pc \in {"returned", "raised"}
    /\ wf' = [wf EXCEPT ![c] = IdleFrame]
    /\ UNCHANGED <<remote_vars, conf_vars, runs, calls, last_request, enc_vars, hash_vars>>

(***************************************************************************)
(* Arguments the callers pass                                              *)
(***************************************************************************)
RecipientA == DictV(<<<<"email", StrV("a@x.com")>>, <<"name", StrV("A")>>>>)
RecipientB == DictV(<<<<"email", StrV("b@x.com")>>, <<"name", StrV("B")>>>>)
RecipientInputs ==
    {ListV(<<>>), ListV(<<RecipientA>>), ListV(<<RecipientA, RecipientB>>)}
BatchRecipientInputs == {ListV(<<>>), ListV(<<RecipientA, RecipientB>>)}

HtmlEmail ==
    DictV(<<<<"subject", StrV("Hi")>>, <<"sender_name", StrV("John")>>,
            <<"sender_email", StrV("j@x.com")>>, <<"body", StrV("<html/>")>>,
            <<"categories", ListV(<<StrV("First"), StrV("Second")>>)>>>>)
HtmlEmailNoSubject ==
    DictV(<<<<"sender_name", StrV("John")>>, <<"sender_email", StrV("j@x.com")>>,
            <<"body", StrV("<html/>")>>>>)
TemplateEmail ==
    DictV(<<<<"sender_name", StrV("John")>>, <<"sender_email", StrV("j@x.com")>>,
            <<"template_id", IntV(4185485)>>>>)
TemplateIdOnly == DictV(<<<<"template_id", IntV(3140875)>>>>)
UntypedEmail == DictV(<<<<"subject", StrV("Hi")>>>>)
EmailDataInputs == {HtmlEmail, HtmlEmailNoSubject, TemplateEmail, UntypedEmail}

DelayedCampaign == DictV(<<<<"start_time", DatetimeV("2026-01-01 10:00")>>>>)
CampaignDataInputs == {None, DelayedCampaign}

\* the items of a batch: each carries both of its dicts
CampaignItem(email_data, campaign_data) ==
    DictV(<<<<"email_data", email_data>>, <<"campaign_data", campaign_data>>>>)
CampaignItems ==
    {CampaignItem(TemplateEmail, DictV(<<>>)),
     CampaignItem(TemplateIdOnly, DelayedCampaign),
     CampaignItem(UntypedEmail, DictV(<<>>))}
RECURSIVE SeqsUpTo(_, _)
SeqsUpTo(S, n) ==
    IF n = 0 THEN {<<>>}
    ELSE SeqsUpTo(S, n - 1) \cup
         {Append(q, x) : q \in {r \in SeqsUpTo(S, n - 1) : Len(r) = n - 1}, x \in S}
CampaignsInputs == SeqsUpTo(CampaignItems, MaxBatch) \ {<<>>}

DefaultEmailDataInputs ==
    {None, DictV(<<>>),
     DictV(<<<<"sender_name", StrV("John")>>, <<"sender_email", StrV("j@x.com")>>>>),
     DictV(<<<<"cc", StrV("c@x.com")>>>>)}
DefaultCampaignDataInputs == {None, DictV(<<<<"tz", StrV("UTC")>>>>)}

(***************************************************************************)
(* The entry points of SimpleClient                                        *)
(***************************************************************************)
create_email_campaign(c, recipients, email_data, campaign_data) ==
    /\ c \in constructed
    /\ wf[c].pc = "idle"
    /\ runs < MaxRuns
    /\ runs' = runs + 1
    /\ calls' = <<>>
    /\ last_request' = NoRequest
    /\ \E w2 \in EnterWorkflow([IdleFrame EXCEPT !.op = "create_email_campaign",
                                              !.email_data_arg = email_data,
                                              !.campaign_data_arg = campaign_data],
                              recipients, email_data, campaign_data) :
         wf' = [wf EXCEPT ![c] = w2]
    /\ UNCHANGED <<remote_vars, conf_vars, enc_vars, hash_vars>>

\* import_contacts called by the user, outside the workflow
import_contacts(c, recipients, email_list_ids) ==
    /\ c \in constructed
    /\ wf[c].pc = "idle"
    /\ runs < MaxRuns
    /\ runs' = runs + 1
    /\ calls' = <<>>
    /\ last_request' = NoRequest
    /\ \E w2 \in ImportContactsEnter([IdleFrame EXCEPT !.op = "import_contacts"],
                                    recipients, email_list_ids) :
         wf' = [wf EXCEPT ![c] = w2]
    /\ UNCHANGED <<remote_vars, conf_vars, enc_vars, hash_vars>>

create_many_email_campaigns(c, campaigns, recipients, default_email_data, default_campaign_data) ==
    /\ c \in constructed
    /\ wf[c].pc = "idle"
    /\ runs = 0
    /\ runs' = runs + 1
    /\ calls' = <<>>
    /\ last_request' = NoRequest
    /\ \E w2 \in BatchIter([IdleFrame EXCEPT !.op = "create_many_email_campaigns",
                                             !.batch = TRUE,
                                             !.campaigns = campaigns,
                                             !.campaigns_arg = campaigns,
                                             !.recipients = recipients,
                                             !.default_email_data = default_email_data,
                                             !.default_campaign_data =
                                                 default_campaign_data]) :
         wf' = [wf EXCEPT ![c] = w2]
    /\ UNCHANGED <<remote_vars, conf_vars, enc_vars, hash_vars>>

(***************************************************************************)
(* Specifications of the workflow: one SimpleClient, constructed, against  *)
(* a remote service that may already hold a list and a custom field        *)
(***************************************************************************)
NoKwargs == [k \in {} |-> ""]
NoArgs == [api_key |-> "", platform |-> "", kwargs |-> NoKwargs,
           conf |-> ClassDefaultConf]

InitRemote ==
    /\ remote_lists \in {<<>>, <<[id |-> 1, title |-> "newsletter"]>>}
    /\ remote_fields \in {{}, {"name"}}
    /\ remote_contacts = {}
    /\ remote_messages = {}
    /\ remote_campaigns = {}
    /\ next_id = 2

InitOneClient ==
    /\ DEFAULT_CONF = ClientInit(ClassDefaultConf, "key1", "test", NoKwargs)
    /\ constructed = {1}
    /\ ctor_args = [c \in ClientIds |->
                      IF c = 1 THEN [api_key |-> "key1", platform |-> "test",
                                     kwargs |-> NoKwargs,
                                     conf |-> ClientInit(ClassDefaultConf, "key1",
                                                         "test", NoKwargs)]
                      ELSE NoArgs]

Init ==
    /\ InitOneClient
    /\ InitRemote
    /\ calls = <<>>
    /\ last_request = NoRequest
    /\ wf = [c \in ClientIds |-> IdleFrame]
    /\ runs = 0
    /\ enc_in = None
    /\ enc_out = None
    /\ enc_alt = None
    /\ enc_alt_out = None
    /\ hash_in = None
    /\ hash_out = <<>>

Steps ==
    \E c \in ClientIds :
        \/ GetLists(c)
        \/ CreateList(c)
        \/ GetFields(c)
        \/ CreateField(c)
        \/ ImportContacts(c)
        \/ CreateEmailMessage(c)
        \/ CreateCampaign(c)
        \/ Finish(c)

StartSingle ==
    \E c \in ClientIds :
        /\ wf[c].pc = "idle"
        /\ \E recipients \in RecipientInputs, email_data \in EmailDataInputs,
              campaign_data \in CampaignDataInputs :
                create_email_campaign(c, recipients, email_data, campaign_data)

StartBatch ==
    \E c \in ClientIds :
        /\ wf[c].pc = "idle"
        /\ runs = 0
        /\ \E campaigns \in CampaignsInputs, recipients \in BatchRecipientInputs,
              default_email_data \in DefaultEmailDataInputs,
              default_campaign_data \in DefaultCampaignDataInputs :
                create_many_email_campaigns(c, campaigns, recipients,
                                            default_email_data, default_campaign_data)

Next == StartSingle \/ Steps
Spec == Init /\ [][Next]_vars

\* the workflow, called also with html emails that lack required fields
HtmlEmailLacking(missing) ==
    LET Given(entry) == entry[1] \notin missing
    IN  DictV(SelectSeq(<<<<"text_body", StrV("Hello")>>, <<"subject", StrV("Hi")>>,
                          <<"sender_name", StrV("John")>>,
                          <<"sender_email", StrV("j@x.com")>>,
                          <<"body", StrV("<html/>")>>>>, Given))
LackingEmailDataInputs ==
    {HtmlEmailLacking(missing) :
        missing \in SUBSET SeqToSet(REQUIRED_EMAIL_ARGS("html")) \ {{}}}
StartLacking ==
    \E c \in ClientIds :
        /\ wf[c].pc = "idle"
        /\ \E email_data \in LackingEmailDataInputs :
                create_email_campaign(c, ListV(<<RecipientA>>), email_data, None)

NextValidate == StartSingle \/ StartLacking \/ Steps
SpecValidate == Init /\ [][NextValidate]_vars

\* the workflow or import_contacts, called by the user once in a behaviour
EmailListIdsInputs == {None, ListV(<<IntV(1)>>)}
\* recipients with a second custom field, with a status of their own, and
\* with other keys than the first recipient
RecipientNick ==
    DictV(<<<<"email", StrV("n@x.com")>>, <<"name", StrV("N")>>, <<"nick", IntV(7)>>>>)
RecipientInactive ==
    DictV(<<<<"email", StrV("i@x.com")>>, <<"email_status", StrV("inactive")>>>>)
RecipientEmailOnly == DictV(<<<<"email", StrV("e@x.com")>>>>)
ImportRecipientInputs ==
    {ListV(<<>>), ListV(<<RecipientNick>>), ListV(<<RecipientInactive>>),
     ListV(<<RecipientA, RecipientEmailOnly>>),
     ListV(<<RecipientEmailOnly, RecipientA>>)}
StartImport ==
    \E c \in ClientIds :
        /\ wf[c].pc = "idle"
        /\ runs = 0
        /\ \E recipients \in ImportRecipientInputs,
              email_list_ids \in EmailListIdsInputs :
                import_contacts(c, recipients, email_list_ids)

StartWorkflow ==
    \E c \in ClientIds :
        /\ wf[c].pc = "idle"
        /\ runs = 0
        /\ \E recipients \in {ListV(<<>>), ListV(<<RecipientA, RecipientB>>)} :
                create_email_campaign(c, recipients, TemplateEmail, None)

InitImport ==
    /\ InitOneClient
    /\ remote_lists \in {<<>>, <<[id |-> 1, title |-> "newsletter"]>>}
    /\ remote_fields \in SUBSET {"name", "nick"}
    /\ remote_contacts = {}
    /\ remote_messages = {}
    /\ remote_campaigns = {}
    /\ next_id = 2
    /\ calls = <<>>
    /\ last_request = NoRequest
    /\ wf = [c \in ClientIds |-> IdleFrame]
    /\ runs = 0
    /\ enc_in = None
    /\ enc_out = None
    /\ enc_alt = None
    /\ enc_alt_out = None
    /\ hash_in = None
    /\ hash_out = <<>>

NextImport == StartWorkflow \/ StartImport \/ Steps
SpecImport == InitImport /\ [][NextImport]_vars

\* one batch per behaviour, against a remote that holds one other list
InitBatch ==
    /\ InitOneClient
    /\ remote_lists = <<[id |-> 1, title |-> "newsletter"]>>
    /\ remote_fields = {}
    /\ remote_contacts = {}
    /\ remote_messages = {}
    /\ remote_campaigns = {}
    /\ next_id = 2
    /\ calls = <<>>
    /\ last_request = NoRequest
    /\ wf = [c \in ClientIds |-> IdleFrame]
    /\ runs = 0
    /\ enc_in = None
    /\ enc_out = None
    /\ enc_alt = None
    /\ enc_alt_out = None
    /\ hash_in = None
    /\ hash_out = <<>>

NextBatch == StartBatch \/ Steps
SpecBatch == InitBatch /\ [][NextBatch]_vars

(***************************************************************************)
(* Specification of the low-level Client: construction of instances and    *)
(* invocation of operations by name                                        *)
(***************************************************************************)
\* requests.post calls in a behaviour of this specification
MaxCalls == 1

CredentialInputs == {<<"key1", "shop">>, <<"key2", "blog">>}
KwargsInputs ==
    {NoKwargs, [k \in {"lang"} |-> "ru"], [k \in {"base_url"} |-> "http://localhost"]}
OperationNames == {"get_lists", "delete_list", "drop_list", "getLists"}
OperationKwargs == {DictV(<<>>), DictV(<<<<"list_id", IntV(1)>>>>)}

\* Client.__init__
Construct(c, api_key, platform, kwargs) ==
    /\ c \notin constructed
    /\ DEFAULT_CONF' = ClientInit(DEFAULT_CONF, api_key, platform, kwargs)
    /\ constructed' = constructed \cup {c}
    /\ ctor_args' = [ctor_args EXCEPT ![c] =
                        [api_key |-> api_key, platform |-> platform, kwargs |-> kwargs,
                         conf |-> ClientInit(DEFAULT_CONF, api_key, platform, kwargs)]]
    /\ UNCHANGED <<remote_vars, calls, last_request, wf, runs, enc_vars, hash_vars>>

\* client.<name>(**kwargs): __getattr__, then the call of what it returned;
\* the base class's after_request does nothing with the response
Invoke(c, name, kwargs) ==
    /\ c \in constructed
    /\ wf[c].pc = "idle"
    /\ Len(calls) < MaxCalls
    /\ IF getattr(name) = "None"
       THEN /\ wf' = [wf EXCEPT ![c] =
                        [IdleFrame EXCEPT !.op = name, !.pc = "raised",
                            !.error = Raised("TypeError",
                                             "'NoneType' object is not callable")]]
            /\ UNCHANGED <<calls, last_request>>
       ELSE \E response \in Responses :
            /\ Post(c, name, "", kwargs, response)
            /\ wf' = [wf EXCEPT ![c] =
                        [IdleFrame EXCEPT !.op = name, !.pc = "returned",
                                          !.result = IntV(response.status_code)]]
    /\ UNCHANGED <<remote_vars, conf_vars, runs, enc_vars, hash_vars>>

InitConf ==
    /\ DEFAULT_CONF = ClassDefaultConf
    /\ constructed = {}
    /\ ctor_args = [c \in ClientIds |-> NoArgs]
    /\ remote_lists = <<>>
    /\ remote_fields = {}
    /\ remote_contacts = {}
    /\ remote_messages = {}
    /\ remote_campaigns = {}
    /\ next_id = 1
    /\ calls = <<>>
    /\ last_request = NoRequest
    /\ wf = [c \in ClientIds |-> IdleFrame]
    /\ runs = 0
    /\ enc_in = None
    /\ enc_out = None
    /\ enc_alt = None
    /\ enc_alt_out = None
    /\ hash_in = None
    /\ hash_out = <<>>

NextConf ==
    \/ \E c \in ClientIds, cred \in CredentialInputs, kwargs \in KwargsInputs :
          Construct(c, cred[1], cred[2], kwargs)
    \/ \E c \in ClientIds, name \in OperationNames, kwargs \in OperationKwargs :
          Invoke(c, name, kwargs)
    \/ \E c \in ClientIds : Finish(c)
SpecConf == InitConf /\ [][NextConf]_vars

(***************************************************************************)
(* Claims about the low-level Client (SpecConf)                            *)
(***************************************************************************)
\* C1: invoking an operation name outside the allow-list raises (the call
\* of the None that __getattr__ returned is a TypeError) and performs no
\* requests.post: the log of calls and the latest request stay as they were.
C1_UnknownOperationRaisesWithoutRequest ==
    [][\A c \in ClientIds :
          (wf[c].pc = "idle" /\ wf'[c].pc # "idle" /\ wf'[c].op \notin _api_methods)
              => /\ wf'[c].pc = "raised"
                 /\ wf'[c].error.type = "TypeError"
                 /\ calls' = calls
                 /\ last_request' = last_request]_vars

\* C1 witness: an unknown operation was invoked and raised, nothing posted
C1_Witness ==
    \E c \in ClientIds :
        /\ wf[c].op = "drop_list"
        /\ wf[c].pc = "raised"
        /\ wf[c].error.type = "TypeError"
        /\ calls = <<>>

\* C9: what a client sends (api_key, platform, format, and the base_url and
\* lang of the url) is the configuration it had when its constructor
\* returned, whatever other clients were constructed since.
C9_ConfigFixedAtConstruction ==
    \A c \in constructed :
        last_request.client = c =>
            LET own == ctor_args[c].conf
            IN  /\ last_request.api_key = own.api_key
                /\ last_request.platform = own.platform
                /\ last_request.format = own.format
                /\ last_request.url = own.base_url \o "/" \o own.lang \o "/api/"
                                          \o to_camel_case(last_request.method)

(***************************************************************************)
(* Claims about create_email_campaign (Spec)                               *)
(***************************************************************************)
Failed(call) == call.status_code # 200 \/ call.error # None
Methods(m) == {i \in 1..Len(calls) : calls[i].method = m}
TitlesOf(title) == {i \in 1..Len(remote_lists) : remote_lists[i].title = title}
Finished(c) == wf[c].pc \in {"returned", "raised"}
LastCall == calls[Len(calls)]

\* C2: the remote never holds two lists with one title; create_list is
\* only ever about to be issued while no list has the title; and a list id
\* the workflow resolved is the id of the one list with its title.
C2_OneListPerTitle ==
    /\ \A i, j \in 1..Len(remote_lists) :
          remote_lists[i].title = remote_lists[j].title => i = j
    /\ \A c \in ClientIds :
          /\ wf[c].pc = "create_list" => TitlesOf(wf[c].list_title) = {}
          /\ (wf[c].op = "create_email_campaign" /\ wf[c].list_id # None)
                => \E i \in TitlesOf(wf[c].list_title) :
                      remote_lists[i].id = wf[c].list_id[2]

\* C2 witness: a second invocation resolved the list the first one created,
\* with no create_list of its own
C2_Witness ==
    \E c \in ClientIds :
        /\ runs = 2
        /\ wf[c].list_id # None
        /\ Methods("create_list") = {}
        /\ \E i \in TitlesOf(wf[c].list_title) :
              remote_lists[i].id = wf[c].list_id[2] /\ remote_lists[i].id > 1

\* the place of a call in the order of the workflow
CallOrder(m) ==
    CASE m = "get_lists" -> 1
      [] m = "create_list" -> 2
      [] m = "get_fields" -> 3
      [] m = "create_field" -> 4
      [] m = "import_contacts" -> 5
      [] m = "create_email_message" -> 6
      [] m = "create_campaign" -> 7
      [] OTHER -> 0

\* C3: when create_email_campaign has returned, its calls were issued in
\* the order get_lists, (create_list), get_fields, create_field..., 
\* import_contacts, create_email_message, create_campaign; each of the five
\* steps is there exactly once (create_list at most once, directly after
\* get_lists) and every call was answered with a success before the next.
C3_FixedStepOrder ==
    \A c \in ClientIds :
        (wf[c].op = "create_email_campaign" /\ wf[c].pc = "returned") =>
            /\ \A i, j \in 1..Len(calls) :
                  i < j => /\ CallOrder(calls[i].method) > 0
                           /\ CallOrder(calls[i].method) <= CallOrder(calls[j].method)
            /\ \A m \in {"get_lists", "get_fields", "import_contacts",
                         "create_email_message", "create_campaign"} :
                  Cardinality(Methods(m)) = 1
            /\ Cardinality(Methods("create_list")) <= 1
            /\ \A i \in 1..Len(calls) : ~Failed(calls[i])

\* C3 witness: a returned run that had to create its list and a field
C3_Witness ==
    \E c \in ClientIds :
        /\ wf[c].op = "create_email_campaign"
        /\ wf[c].pc = "returned"
        /\ Methods("create_list") # {}
        /\ Methods("create_field") # {}
        /\ Len(calls) = 7

\* C4 as claimed: get_lists is never issued before a create_list attempt.
C4_CreateBeforeLookup ==
    \A i \in Methods("get_lists") : \E j \in Methods("create_list") : j < i

\* C4 as amended: the lookup comes first.  create_list is issued only
\* directly after a get_lists that succeeded, and only while no list has
\* the title; a list id resolved without create_list is the id of a list
\* whose title is exactly the derived one.
C4_LookupBeforeCreate ==
    /\ \A i \in Methods("create_list") :
          /\ i = 2
          /\ calls[1].method = "get_lists"
          /\ ~Failed(calls[1])
    /\ \A c \in ClientIds :
          /\ wf[c].pc = "create_list" =>
                /\ Methods("get_lists") = {1}
                /\ TitlesOf(wf[c].list_title) = {}
          /\ (wf[c].list_id # None /\ Methods("create_list") = {}) =>
                \E i \in 1..Len(remote_lists) :
                    /\ remote_lists[i].id = wf[c].list_id[2]
                    /\ remote_lists[i].title = wf[c].list_title

\* C4 witness: both branches were taken: this run found its list by the
\* lookup alone, the list having been created by an earlier run
C4_Witness ==
    \E c \in ClientIds :
        /\ wf[c].pc = "get_fields"
        /\ Methods("create_list") = {}
        /\ Len(remote_lists) >= 2
        /\ wf[c].list_id = IntV(remote_lists[Len(remote_lists)].id)

WorkflowMethods ==
    {"get_lists", "create_list", "get_fields", "create_field", "import_contacts",
     "create_email_message", "create_campaign"}

\* C5: a failed response (non-200 status or embedded error) to a call of
\* steps 1-4 is the last call of the invocation, which has raised the
\* request error (and is over once the caller has taken it); no call other than the workflow's seven (so no delete or
\* rollback) is ever issued, and what the earlier calls created is still
\* there.
C5_FailureAbortsWithoutRollback ==
    /\ \A i \in 1..Len(calls) :
          /\ calls[i].method \in WorkflowMethods
          /\ (Failed(calls[i]) /\ calls[i].method # "create_campaign") =>
                /\ i = Len(calls)
                /\ wf[calls[i].client].pc \in {"raised", "idle"}
                /\ wf[calls[i].client].pc = "raised" =>
                      wf[calls[i].client].error =
                         _validate_response([status_code |-> calls[i].status_code,
                                             error |-> calls[i].error],
                                            _get_request_url(calls[i].client,
                                                             calls[i].method))
          /\ (~Failed(calls[i]) /\ calls[i].method = "create_list") =>
                TitlesOf(calls[i].arg) # {}
          /\ (~Failed(calls[i]) /\ calls[i].method = "create_field") =>
                calls[i].arg \in remote_fields
          /\ (~Failed(calls[i]) /\ calls[i].method = "import_contacts") =>
                \E x \in remote_contacts : x[1] = calls[i].arg

\* C5 witness: the import failed after the list and a field were created
C5_Witness ==
    \E c \in ClientIds :
        /\ wf[c].op = "create_email_campaign"
        /\ wf[c].pc = "raised"
        /\ Methods("create_list") # {}
        /\ Methods("create_field") # {}
        /\ Len(calls) > 0
        /\ LastCall.method = "import_contacts"
        /\ Failed(LastCall)
        /\ TitlesOf(wf[c].list_title) # {}

BoolV(b) == <<"bool", b>>

\* C6 as claimed: once create_campaign was answered, create_email_campaign
\* has returned a boolean, true exactly for a response without failure.
C6_FinalStepReturnsBoolean ==
    \A c \in ClientIds :
        (wf[c].op = "create_email_campaign" /\ Finished(c) /\ Len(calls) > 0
         /\ LastCall.method = "create_campaign") =>
            /\ wf[c].pc = "returned"
            /\ wf[c].result = BoolV(~Failed(LastCall))

\* C6 as amended: the final step raises like the others.  Once
\* create_campaign was answered, create_email_campaign has raised the
\* request error if the response failed, and otherwise has returned the id
\* of the campaign the remote created for its message.
C6_FinalStepRaisesOrReturnsId ==
    \A c \in ClientIds :
        (wf[c].op = "create_email_campaign" /\ Finished(c) /\ Len(calls) > 0
         /\ LastCall.method = "create_campaign") =>
            IF Failed(LastCall)
            THEN /\ wf[c].pc = "raised"
                 /\ wf[c].error =
                       _validate_response([status_code |-> LastCall.status_code,
                                           error |-> LastCall.error],
                                          _get_request_url(c, "create_campaign"))
                 /\ wf[c].result = None
            ELSE /\ wf[c].pc = "returned"
                 /\ wf[c].result[1] = "int"
                 /\ <<wf[c].result[2], wf[c].message_id[2]>> \in remote_campaigns
                 /\ wf[c].result[2] = next_id - 1

\* C6 witness: create_campaign answered with a failure, and the call raised
C6_Witness ==
    \E c \in ClientIds :
        /\ wf[c].op = "create_email_campaign"
        /\ wf[c].pc = "raised"
        /\ Len(calls) > 0
        /\ LastCall.method = "create_campaign"
        /\ Failed(LastCall)

(***************************************************************************)
(* Claims about create_many_email_campaigns (SpecBatch)                    *)
(***************************************************************************)
\* the messages of the exceptions that can leave the create_email_campaign
\* call a batch is in: of the validations, of the failed last response, of
\* the local failures
InnerMessages(c) ==
    {ERROR_MESSAGES("email_recipients_empty"), "contact[key]", "strftime", "result"}
    \cup (IF wf[c].email_data = None THEN {}
          ELSE {e.msg : e \in _validate_email_data(wf[c].email_data)})
    \cup (IF Len(calls) = 0 THEN {}
          ELSE {_validate_response([status_code |-> LastCall.status_code,
                                    error |-> LastCall.error],
                                   _get_request_url(c, LastCall.method)).msg})

\* C7: when the workflow of the item at index i has failed, the batch has
\* raised an error that carries "Campaign number: i"; no call was issued
\* for an item after i and none outside the workflow's seven (nothing is
\* undone); the ids of the campaigns created for the items before i are
\* not returned, and those campaigns are still on the remote.
C7_BatchAbortsAtFailingItem ==
    \A c \in ClientIds :
        (wf[c].batch /\ wf[c].pc = "raised" /\ wf[c].error.type # "ValueError") =>
            LET i == wf[c].campaign_num
            IN  /\ \E m \in InnerMessages(c) \ {""} :
                      wf[c].error.msg = m \o ". Campaign number: " \o ToString(i)
                /\ \A k \in 1..Len(calls) :
                      /\ calls[k].item <= i
                      /\ calls[k].method \in WorkflowMethods
                      /\ calls[k].item < i => ~Failed(calls[k])
                /\ wf[c].result = None
                /\ Len(wf[c].campaign_ids) = i
                /\ \A j \in 1..i :
                      \E x \in remote_campaigns : x[1] = wf[c].campaign_ids[j]

\* C7 witness: the second item failed at a remote call after the first
\* item's campaign was created
C7_Witness ==
    \E c \in ClientIds :
        /\ wf[c].batch
        /\ wf[c].pc = "raised"
        /\ wf[c].campaign_num = 1
        /\ Len(wf[c].campaigns) = 2
        /\ Len(wf[c].campaign_ids) = 1
        /\ Len(calls) > 0
        /\ LastCall.item = 1
        /\ Failed(LastCall)
        /\ \E x \in remote_campaigns : x[1] = wf[c].campaign_ids[1]

\* C8: the merge of the defaults never fails, and the workflow of an item
\* starts with the merged parameters: every key of the default email and
\* campaign data is in the item's dict, with the item's own value if the
\* item had the key and with the default value otherwise.
Merged(own, defaults, used) ==
    defaults # None =>
        \A k \in Keys(defaults) :
            /\ Has(used, k)
            /\ Get(used, k) = IF Has(own, k) THEN Get(own, k) ELSE Get(defaults, k)
C8_DefaultsMergedBeforeRun ==
    \A c \in ClientIds :
        wf[c].batch =>
            /\ wf[c].error.type # "ValueError"
            /\ wf[c].pc = "get_lists" =>
                  LET own == wf[c].campaigns_arg[wf[c].campaign_num + 1]
                  IN  /\ Merged(Get(own, "email_data"), wf[c].default_email_data,
                                wf[c].email_data)
                      /\ Merged(Get(own, "campaign_data"), wf[c].default_campaign_data,
                                wf[c].campaign_data)

(***************************************************************************)
(* Specification of the encoder: _build_request_data applied to keyword    *)
(* arguments drawn from bounded nested values                              *)
(***************************************************************************)
\* entries of a list or of a map with scalar members
MaxLen == 2
\* levels of containers below the keyword arguments
MaxDepth == 2

Leaf == {IntV(1), StrV("x"), None}
InnerKeys == {"b", "c"}
TopKeys == {"a", "a[b]", "format"}

\* the dicts with at most n entries over the keys K and the values V, in
\* every insertion order
RECURSIVE DictsUpTo(_, _, _)
DictsUpTo(K, V, n) ==
    IF n = 0 THEN {DictV(<<>>)}
    ELSE DictsUpTo(K, V, n - 1) \cup
         {DictV(Append(d[2], <<k, v>>)) :
             d \in {e \in DictsUpTo(K, V, n - 1) : Len(e[2]) = n - 1},
             k \in K, v \in V}
DistinctKeys(d) == Cardinality(Keys(d)) = Len(d[2])

\* scalars, and lists and maps of at most n scalars
Wide(n) ==
    Leaf \cup {ListV(q) : q \in SeqsUpTo(Leaf, n)}
         \cup {d \in DictsUpTo(InnerKeys, Leaf, n) : DistinctKeys(d)}
\* a scalar beside a container, in a map or in a list
Mixed(n) ==
    {DictV(<<<<"b", l>>, <<"c", x>>>>) : l \in Leaf, x \in Wide(n) \ Leaf}
    \cup {ListV(<<l, x>>) : l \in Leaf, x \in Wide(n) \ Leaf}
\* d levels of containers: one more level around the values of the level
\* below
RECURSIVE Deep(_, _)
Deep(n, d) ==
    IF d <= 1 THEN Wide(n)
    ELSE LET below == Deep(n, d - 1)
         IN  below \cup {ListV(<<x>>) : x \in below}
                   \cup {DictV(<<<<k, x>>>>) : k \in InnerKeys, x \in below}
NestedValues(n, d) == Deep(n, d) \cup Mixed(n)
Small == {IntV(1), DictV(<<>>)}

\* keyword arguments: one nested value, alone or before or after a small one
EncInputs(n, d) ==
    LET V == NestedValues(n, d)
    IN  {DictV(<<<<k, v>>>>) : k \in TopKeys, v \in V}
        \cup {DictV(<<<<"a", v>>, <<k2, u>>>>) :
                k2 \in TopKeys \ {"a"}, v \in V, u \in Small}
        \cup {DictV(<<<<k2, u>>, <<"a", v>>>>) :
                k2 \in TopKeys \ {"a"}, v \in V, u \in Small}

BuildRequestData ==
    /\ enc_out = None
    /\ enc_out' = _build_request_data(1, enc_in, None)
    /\ UNCHANGED <<enc_in, enc_alt, enc_alt_out, hash_vars, remote_vars, conf_vars,
                   calls, last_request, wf, runs>>

InitEnc ==
    /\ InitOneClient
    /\ remote_lists = <<>>
    /\ remote_fields = {}
    /\ remote_contacts = {}
    /\ remote_messages = {}
    /\ remote_campaigns = {}
    /\ next_id = 1
    /\ calls = <<>>
    /\ last_request = NoRequest
    /\ wf = [c \in ClientIds |-> IdleFrame]
    /\ runs = 0
    /\ enc_in \in EncInputs(MaxLen, MaxDepth)
    /\ enc_out = None
    /\ enc_alt = None
    /\ enc_alt_out = None
    /\ hash_in = None
    /\ hash_out = <<>>

NextEnc == BuildRequestData
SpecEnc == InitEnc /\ [][NextEnc]_vars

(***************************************************************************)
(* Claims about the encoder (SpecEnc)                                      *)
(***************************************************************************)
TransportKeys == {"api_key", "platform", "format"}

\* the bracket path of a member: the key itself at the root, prefix[key]
\* below it
ChildPath(prefix, key) ==
    IF prefix = None THEN key ELSE prefix[2] \o "[" \o key \o "]"

\* the non-null scalar leaves of a value, depth first, each with the
\* bracket path of map keys and zero-based positions that leads to it
RECURSIVE Leaves(_, _)
RECURSIVE LeavesFrom(_, _, _)
LeavesFrom(v, prefix, i) ==
    IF i > Len(v[2]) THEN <<>>
    ELSE (IF IsDict(v)
          THEN Leaves(v[2][i][2], StrV(ChildPath(prefix, v[2][i][1])))
          ELSE Leaves(v[2][i], StrV(ChildPath(prefix, ToString(i - 1)))))
         \o LeavesFrom(v, prefix, i + 1)
Leaves(v, prefix) ==
    IF IsDict(v) \/ IsList(v) THEN LeavesFrom(v, prefix, 1)
    ELSE IF v = None THEN <<>>
    ELSE <<[path |-> prefix[2], value |-> v]>>

\* the leaves that are not themselves given under a transport key
IsPayload(leaf) == leaf.path \notin TransportKeys
PayloadLeaves(v) == SelectSeq(Leaves(v, None), IsPayload)

\* the output has, besides the transport keys, one entry per leaf, under
\* the leaf's path and with the leaf's value
OneEntryPerLeaf(leaves, out) ==
    /\ Cardinality(Keys(out) \ TransportKeys) = Len(leaves)
    /\ \A i \in 1..Len(leaves) :
          /\ Has(out, leaves[i].path)
          /\ Get(out, leaves[i].path) = leaves[i].value

\* C10 as claimed: for every nested value the output has, apart from the
\* transport keys, exactly one entry per non-null scalar leaf, keyed by the
\* leaf's bracket path and holding its value.
C10_OneEntryPerLeaf ==
    enc_out # None => OneEntryPerLeaf(PayloadLeaves(enc_in), enc_out)

\* C10 on the values free of the collision: for the values whose non-null
\* scalar leaves have pairwise distinct bracket paths the statement holds;
\* and for every value the encoder returns a mapping that holds the three
\* transport keys.
C10_OneEntryPerDistinctLeafPath ==
    enc_out # None =>
        LET leaves == PayloadLeaves(enc_in)
        IN  /\ IsDict(enc_out)
            /\ TransportKeys \subseteq Keys(enc_out)
            /\ (\A i, j \in 1..Len(leaves) :
                    leaves[i].path = leaves[j].path => i = j)
               => OneEntryPerLeaf(leaves, enc_out)

\* a state of that case: a map in a map with a scalar, a null, a list and an empty
\* map was encoded; a[c][1] is among the keys and nothing stands for the
\* null and the empty map
C10_Witness ==
    /\ enc_in = DictV(<<<<"a", DictV(<<<<"b", None>>,
                                      <<"c", ListV(<<StrV("x"), IntV(1)>>)>>>>)>>,
                        <<"a[b]", DictV(<<>>)>>>>)
    /\ enc_out # None
    /\ Keys(enc_out) = TransportKeys \cup {"a[c][0]", "a[c][1]"}
    /\ Get(enc_out, "a[c][1]") = IntV(1)

\* the default transport fields as leaves, each under its own name
TransportLeaves(c) ==
    <<[path |-> "api_key", value |-> StrV(_get_default_request_data(c).api_key)],
      [path |-> "platform", value |-> StrV(_get_default_request_data(c).platform)],
      [path |-> "format", value |-> StrV(_get_default_request_data(c).format)]>>

\* every leaf has an entry of its own: as many entries as leaves, and each
\* leaf's value stands under the leaf's path
NoLeafOverwritten(leaves, out) ==
    /\ Cardinality(Keys(out)) = Len(leaves)
    /\ \A i \in 1..Len(leaves) :
          /\ Has(out, leaves[i].path)
          /\ Get(out, leaves[i].path) = leaves[i].value

\* C11: in the mapping the encoder returns every key path stands for one
\* scalar: the three default transport fields and the non-null scalar leaves
\* of the arguments each have an entry of their own, holding their value;
\* no leaf is encoded under the key path of another.
C11_NoLeafOverwritten ==
    enc_out # None =>
        NoLeafOverwritten(TransportLeaves(1) \o Leaves(enc_in, None), enc_out)

(***************************************************************************)
(* Specification of the encoder on two arrangements of the same arguments, *)
(* with one level of containers below them: _build_request_data applied to *)
(* each                                                                    *)
(***************************************************************************)
\* the values that hold v's members in another arrangement: at every level
\* the entries of a map permuted (maps) and the elements of a list permuted
\* (seqs); v itself is among them
RECURSIVE Rearranged(_, _, _)
Rearranged(v, maps, seqs) ==
    IF ~(IsDict(v) \/ IsList(v)) THEN {v}
    ELSE LET n == Len(v[2])
             member(i) == IF IsDict(v) THEN v[2][i][2] ELSE v[2][i]
             orders == IF (IsDict(v) /\ maps) \/ (IsList(v) /\ seqs)
                       THEN Orders(1..n)
                       ELSE {[i \in 1..n |-> i]}
             below == [i \in 1..n |-> Rearranged(member(i), maps, seqs)]
             choices == {f \in [1..n -> UNION {below[i] : i \in 1..n}] :
                            \A i \in 1..n : f[i] \in below[i]}
         IN  {<<v[1], [j \in 1..n |-> IF IsDict(v)
                                      THEN <<v[2][o[j]][1], f[o[j]]>>
                                      ELSE f[o[j]]]>> :
                 o \in orders, f \in choices}

BuildRequestDataFirst ==
    /\ enc_alt # None
    /\ enc_out = None
    /\ enc_out' = _build_request_data(1, enc_in, None)
    /\ UNCHANGED <<enc_in, enc_alt, enc_alt_out, hash_vars, remote_vars, conf_vars,
                   calls, last_request, wf, runs>>

BuildRequestDataSecond ==
    /\ enc_alt # None
    /\ enc_out # None
    /\ enc_alt_out = None
    /\ enc_alt_out' = _build_request_data(1, enc_alt, None)
    /\ UNCHANGED <<enc_in, enc_out, enc_alt, hash_vars, remote_vars, conf_vars,
                   calls, last_request, wf, runs>>

InitEncPair ==
    /\ InitOneClient
    /\ remote_lists = <<>>
    /\ remote_fields = {}
    /\ remote_contacts = {}
    /\ remote_messages = {}
    /\ remote_campaigns = {}
    /\ next_id = 1
    /\ calls = <<>>
    /\ last_request = NoRequest
    /\ wf = [c \in ClientIds |-> IdleFrame]
    /\ runs = 0
    /\ enc_in \in EncInputs(MaxLen, 1)
    /\ enc_out = None
    /\ enc_alt \in Rearranged(enc_in, TRUE, FALSE) \cup Rearranged(enc_in, FALSE, TRUE)
    /\ enc_alt_out = None
    /\ hash_in = None
    /\ hash_out = <<>>

NextEncPair == BuildRequestDataFirst \/ BuildRequestDataSecond
SpecEncPair == InitEncPair /\ [][NextEncPair]_vars

(***************************************************************************)
(* Claims about two arrangements (SpecEncPair)                             *)
(***************************************************************************)
\* two flat mappings with the same keys and the same value under each key
SameMapping(a, b) ==
    /\ Keys(a) = Keys(b)
    /\ \A k \in Keys(a) : Get(a, k) = Get(b, k)

LeafSet(v) == SeqToSet(Leaves(v, None))

\* C12: two argument maps that hold the same entries in another insertion
\* order, at any level, encode to the same flat mapping; two that hold a
\* list's elements in another order, with leaves at other positions, do not.
C12_MapOrderIrrelevant ==
    (enc_out # None /\ enc_alt_out # None) =>
        /\ enc_alt \in Rearranged(enc_in, TRUE, FALSE)
              => SameMapping(enc_out, enc_alt_out)
        /\ (enc_alt \in Rearranged(enc_in, FALSE, TRUE)
                /\ LeafSet(enc_alt) # LeafSet(enc_in))
              => ~SameMapping(enc_out, enc_alt_out)

(***************************************************************************)
(* Specification of the content hasher: the list title derived from each   *)
(* of two recipient collections                                            *)
(***************************************************************************)
\* recipients in a hashed collection
MaxHashLen == 1

HashValues == {StrV("a"), StrV("aa"), StrV("b")}
\* a recipient: an email and a name, inserted in either order
HashRecipients ==
    {d \in DictsUpTo({"email", "name"}, HashValues, 2) :
        Len(d[2]) = 2 /\ DistinctKeys(d)}
HashInputs == {ListV(q) : q \in SeqsUpTo(HashRecipients, MaxHashLen) \ {<<>>}}

\* the values of v's shape (the same maps, keys and lengths) with any
\* scalars at the leaves
RECURSIVE Revalued(_)
Revalued(v) ==
    IF ~(IsDict(v) \/ IsList(v)) THEN HashValues
    ELSE LET n == Len(v[2])
             member(i) == IF IsDict(v) THEN v[2][i][2] ELSE v[2][i]
             below == [i \in 1..n |-> Revalued(member(i))]
             choices == {f \in [1..n -> UNION {below[i] : i \in 1..n}] :
                            \A i \in 1..n : f[i] \in below[i]}
         IN  {<<v[1], [j \in 1..n |-> IF IsDict(v) THEN <<v[2][j][1], f[j]>>
                                      ELSE f[j]]>> : f \in choices}

\* create_email_campaign lines 279-280, for the next of the two collections
Fingerprint ==
    /\ hash_in # None
    /\ Len(hash_out) < Len(hash_in)
    /\ hash_out' = Append(hash_out, list_title(hash_in[Len(hash_out) + 1]))
    /\ UNCHANGED <<hash_in, enc_vars, remote_vars, conf_vars, calls, last_request,
                   wf, runs>>

InitHash ==
    /\ InitOneClient
    /\ remote_lists = <<>>
    /\ remote_fields = {}
    /\ remote_contacts = {}
    /\ remote_messages = {}
    /\ remote_campaigns = {}
    /\ next_id = 1
    /\ calls = <<>>
    /\ last_request = NoRequest
    /\ wf = [c \in ClientIds |-> IdleFrame]
    /\ runs = 0
    /\ enc_in = None
    /\ enc_out = None
    /\ enc_alt = None
    /\ enc_alt_out = None
    /\ \E first \in HashInputs :
          \E second \in Rearranged(first, TRUE, FALSE) \cup Revalued(first) :
              hash_in = <<first, second>>
    /\ hash_out = <<>>

NextHash == Fingerprint
SpecHash == InitHash /\ [][NextHash]_vars

(***************************************************************************)
(* Claims about the content hasher (SpecHash)                              *)
(***************************************************************************)
\* C13: two recipient collections whose maps hold the same values under the
\* same keys, inserted in another order, get the same list title.
C13_MapOrderInsensitive ==
    (Len(hash_out) = 2 /\ hash_in[2] \in Rearranged(hash_in[1], TRUE, FALSE))
        => hash_out[1] = hash_out[2]

\* C14: two recipient collections of one shape that differ in the value of
\* at least one scalar leaf get different list titles (the digest taken to
\* be collision-free).
C14_ValueChangeChangesTitle ==
    (Len(hash_out) = 2 /\ hash_in[2] \in Revalued(hash_in[1])
                       /\ hash_in[2] # hash_in[1])
        => hash_out[1] # hash_out[2]

(***************************************************************************)
(* Claims about import_contacts called directly or in the workflow         *)
(* (SpecImport)                                                            *)
(***************************************************************************)
\* C15: an invocation that reaches the import of an empty recipient
\* collection, through create_email_campaign or through import_contacts
\* itself, has raised the error of the empty recipient list, and has issued
\* no request.
C15_EmptyRecipientsRaises ==
    \A c \in constructed :
        (wf[c].op \in {"create_email_campaign", "import_contacts"}
            /\ wf[c].recipients = ListV(<<>>))
        => /\ wf[c].pc = "raised"
           /\ wf[c].error = Exception(ERROR_MESSAGES("email_recipients_empty"))
           /\ calls = <<>>

(***************************************************************************)
(* Claims about the validation of email_data (SpecValidate)                *)
(***************************************************************************)
RequiredHtml == {"subject", "sender_name", "sender_email", "body"}
RequiredTemplate == {"sender_name", "sender_email"}
IsTemplateData(data) == Keys(data) \cap {"template_id", "system_template_id"} # {}
IsHtmlData(data) ==
    ~IsTemplateData(data) /\ Keys(data) \cap {"text_body", "body"} # {}
MissingFieldsPrefix ==
    "UniSender client error: Please fill \"email_data\" required field(s): "
\* the messages that name exactly the fields of a set, comma-joined
MissingFieldsMessages(fields) ==
    {MissingFieldsPrefix \o Join(", ", o) : o \in Orders(fields)}
ValidationMessages ==
    {"UniSender client error: Please fill correct \"email_data\" fields"}
    \cup UNION {MissingFieldsMessages(fields) : fields \in SUBSET RequiredHtml}

FailsValidation(data) ==
    \/ ~IsTemplateData(data) /\ ~IsHtmlData(data)
    \/ IsTemplateData(data) /\ ~(RequiredTemplate \subseteq Keys(data))
    \/ IsHtmlData(data) /\ ~(RequiredHtml \subseteq Keys(data))

\* C20: a workflow invocation whose email_data fails validation has raised
\* and has issued no request.
C20_ValidationBeforeFirstCall ==
    \A c \in constructed :
        (wf[c].op = "create_email_campaign" /\ FailsValidation(wf[c].email_data))
        => /\ wf[c].pc = "raised"
           /\ calls = <<>>
           /\ last_request = NoRequest

\* C20 witness: an invocation with recipients and an email_data of no
\* recognised variant has raised the email_data error without a request,
\* after an earlier invocation had created a list
C20_Witness ==
    /\ wf[1].op = "create_email_campaign"
    /\ Truthy(wf[1].recipients)
    /\ wf[1].email_data = UntypedEmail
    /\ wf[1].pc = "raised"
    /\ wf[1].error = Exception(ERROR_MESSAGES("email_data_error"))
    /\ calls = <<>>
    /\ runs = 2
    /\ \E i \in 1..Len(remote_lists) :
          remote_lists[i].title = list_title(wf[1].recipients)

(***************************************************************************)
(* Specification of two clients running the workflow concurrently for the  *)
(* same recipients, against one remote service that holds no list yet      *)
(***************************************************************************)
\* requests the two invocations issue between them
MaxRaceCalls == 6

\* recipients that carry system fields only: create_fields finds nothing to
\* create
RaceRecipients == ListV(<<DictV(<<<<"email", StrV("a@x.com")>>>>)>>)

InitRace ==
    /\ DEFAULT_CONF = ClientInit(ClassDefaultConf, "key1", "test", NoKwargs)
    /\ constructed = ClientIds
    /\ ctor_args = [c \in ClientIds |->
                      [api_key |-> "key1", platform |-> "test", kwargs |-> NoKwargs,
                       conf |-> ClientInit(ClassDefaultConf, "key1", "test", NoKwargs)]]
    /\ remote_lists = <<>>
    /\ remote_fields = {}
    /\ remote_contacts = {}
    /\ remote_messages = {}
    /\ remote_campaigns = {}
    /\ next_id = 2
    /\ calls = <<>>
    /\ last_request = NoRequest
    /\ wf = [c \in ClientIds |-> IdleFrame]
    /\ runs = 0
    /\ enc_in = None
    /\ enc_out = None
    /\ enc_alt = None
    /\ enc_alt_out = None
    /\ hash_in = None
    /\ hash_out = <<>>

\* both invocations begin before either has issued a request
StartRace ==
    \E c \in ClientIds :
        /\ wf[c].pc = "idle"
        /\ calls = <<>>
        /\ create_email_campaign(c, RaceRecipients, TemplateEmail, None)

StepsRace ==
    \E c \in ClientIds :
        \/ GetLists(c)
        \/ CreateList(c)
        \/ GetFields(c)
        \/ ImportContacts(c)
        \/ CreateEmailMessage(c)
        \/ CreateCampaign(c)
        \/ Finish(c)

NextRace ==
    /\ Len(calls) < MaxRaceCalls
    /\ (StartRace \/ StepsRace)
SpecRace == InitRace /\ [][NextRace]_vars

(***************************************************************************)
(* Claims about concurrent invocations (SpecRace)                          *)
(***************************************************************************)
CreatedList(call) == call.method = "create_list" /\ ~Failed(call)
LookedUp(call, client) ==
    call.method = "get_lists" /\ call.client = client /\ ~Failed(call)

\* C17: list resolution gives no mutual exclusion between two concurrent
\* invocations: two lists of one title are created only by two different
\* clients of which the later creator had looked the title up before the
\* earlier one created its list (no lookup of its own lies between the two
\* creations); the witness shows that this interleaving is reachable.
C17_DuplicateOnlyByRace ==
    \A i, j \in 1..Len(calls) :
        (i < j /\ CreatedList(calls[i]) /\ CreatedList(calls[j])
               /\ calls[i].arg = calls[j].arg)
        => /\ calls[i].client # calls[j].client
           /\ \A k \in 1..Len(calls) :
                 (i < k /\ k < j) => ~LookedUp(calls[k], calls[j].client)

\* C17 witness: both clients have looked up, both have created a list, and
\* the remote service holds two lists with the title derived from the
\* recipients
C17_Witness ==
    /\ Len(remote_lists) = 2
    /\ remote_lists[1].title = list_title(RaceRecipients)
    /\ remote_lists[2].title = list_title(RaceRecipients)
    /\ remote_lists[1].id # remote_lists[2].id
    /\ \E i, j \in 1..Len(calls) :
          /\ CreatedList(calls[i]) /\ calls[i].client = 1
          /\ CreatedList(calls[j]) /\ calls[j].client = 2

(***************************************************************************)
(* Claims about create_fields and the bulk import (SpecImport)             *)
(***************************************************************************)
SystemFieldNames ==
    {"delete", "tags", "email", "email_status", "email_availability",
     "email_list_ids", "email_subscribe_times", "email_unsubscribed_list_ids",
     "email_excluded_list_ids"}

\* the positions in the log of the calls of a method
CallsOf(method) == {i \in 1..Len(calls) : calls[i].method = method}
\* the names for which create_field was issued, and those of them created
IssuedFieldNames == {calls[i].arg : i \in CallsOf("create_field")}
CreatedFieldNames ==
    {calls[i].arg : i \in {j \in CallsOf("create_field") : ~Failed(calls[j])}}
\* get_fields has answered
FieldsFetched == \E i \in CallsOf("get_fields") : ~Failed(calls[i])
\* the loop of create_fields has ended normally
FieldsStepOver(w) ==
    \/ w.pc \in {"import_contacts", "create_email_message", "create_campaign",
                 "returned"}
    \/ CallsOf("import_contacts") # {}

\* C18: within one invocation create_field is issued only after get_fields,
\* once per name at most, and only for requested names that are neither
\* system fields nor among the names get_fields returned; when the step is
\* over, it has been issued for every such name.
C18_CreatesExactlyMissingFields ==
    \A c \in constructed :
        LET w == wf[c]
            missing == SeqToSet(w.field_names)
                           \ (SystemFieldNames \cup w.existing_field_names)
        IN  w.pc # "idle" =>
              /\ ~FieldsFetched => CallsOf("create_field") = {}
              /\ FieldsFetched =>
                    /\ remote_fields \ CreatedFieldNames \subseteq w.existing_field_names
                    /\ Cardinality(CallsOf("create_field"))
                           = Cardinality(IssuedFieldNames)
                    /\ IssuedFieldNames \subseteq missing
                    /\ FieldsStepOver(w) => IssuedFieldNames = missing

\* C18 witness: with the field name already on the remote side and the
\* field nick not, the step is over after one create_field, for nick
C18_Witness ==
    /\ wf[1].pc = "import_contacts"
    /\ "name" \in wf[1].existing_field_names
    /\ SeqToSet(wf[1].field_names)
           = {"email", "name", "nick", "email_status", "email_list_ids"}
    /\ IssuedFieldNames = {"nick"}
    /\ {"name", "nick"} \subseteq remote_fields

\* the value the import holds for a recipient in the column of a field
ColumnValue(recipient, name, email_list_ids) ==
    IF name = "email_status" THEN "active"
    ELSE IF name = "email_list_ids"
    THEN Join(",", [i \in 1..Len(email_list_ids) |-> PyStr(email_list_ids[i])])
    ELSE PyStr(Get(recipient, name))

HeldCampaignData(w) ==
    IF w.campaign_data_arg = None THEN None ELSE w.campaign_data

\* the caller takes the campaign id and calls create_email_campaign once
\* more with the very objects of the call that has just returned; email_data
\* is the dict line 286 wrote into
create_email_campaign_again(c) ==
    /\ c \in constructed
    /\ wf[c].pc = "returned"
    /\ wf[c].op = "create_email_campaign"
    /\ runs < MaxRuns
    /\ runs' = runs + 1
    /\ calls' = <<>>
    /\ last_request' = NoRequest
    /\ LET w == wf[c]
       IN  \E w2 \in EnterWorkflow([IdleFrame EXCEPT !.op = "create_email_campaign",
                                                    !.again = TRUE,
                                                    !.email_data_arg = w.email_data,
                                                    !.campaign_data_arg =
                                                        HeldCampaignData(w)],
                                   w.recipients, w.email_data, HeldCampaignData(w)) :
             wf' = [wf EXCEPT ![c] = w2]
    /\ UNCHANGED <<remote_vars, conf_vars, enc_vars, hash_vars>>

ReuseEmailDataInputs == {HtmlEmail, TemplateEmail}
ReuseCampaignDataInputs == {None, DictV(<<>>), DelayedCampaign}

StartReuse ==
    \E c \in ClientIds :
        /\ wf[c].pc = "idle"
        /\ runs = 0
        /\ \E email_data \in ReuseEmailDataInputs,
              campaign_data \in ReuseCampaignDataInputs :
                create_email_campaign(c, ListV(<<RecipientA>>), email_data,
                                      campaign_data)

Reinvoke == \E c \in ClientIds : create_email_campaign_again(c)

NextReuse == StartReuse \/ Reinvoke \/ Steps
SpecReuse == Init /\ [][NextReuse]_vars

\* C21: create_email_campaign leaves its argument objects as they were: when
\* a call has returned, the caller's email_data and campaign_data equal the
\* values they had when the call was made; and a call made again with those
\* objects does not fail on the start time it formatted the first time
C21_ArgumentsReusable ==
    \A c \in constructed :
        LET w == wf[c]
        IN  w.op = "create_email_campaign" =>
              /\ w.pc = "returned" =>
                    /\ w.email_data = w.email_data_arg
                    /\ HeldCampaignData(w) = w.campaign_data_arg
              /\ (w.again /\ w.pc = "raised") => w.error.type # "AttributeError"

====
